---- MODULE Spec2Model ----
(***************************************************************************)
(* Model of src/plugins/dexie/dexie-helper.ts of RxDB: the registry of     *)
(* shared Dexie connections (getDexieDbWithTables / closeDexieDb), the     *)
(* point lookup over the two document tables (getDocsInDb), the sort       *)
(* comparator (getDexieSortComparator) and the compiler of the Dexie store *)
(* schema (getDexieStoreSchema).                                           *)
(*                                                                         *)
(* Strings are sequences of one-character strings, so that concatenation,  *)
(* startsWith and substring are computed and not assumed.                  *)
(***************************************************************************)
EXTENDS Integers, Sequences, FiniteSets, TLC

VARIABLES
    DEXIE_STATE_DB_BY_NAME,   \* Map<string, DexieStorageInternals>: dexieDbName -> handle id
    REF_COUNT_PER_DEXIE_DB,   \* Map<DexieStorageInternals, number>: handle id -> JS number
    handles,                  \* the promises made by getDexieDbWithTables, by handle id
    pendingClose,             \* closeDexieDb calls suspended at `await statePromise`, per handle
    settingsHeap,             \* the settings objects, by reference: the callers', then the clones
    acquireLog,               \* history: <<databaseName, collectionName, returned handle>>
    acquired,                 \* history: getDexieDbWithTables calls that returned the handle
    closeCalled,              \* history: closeDexieDb calls made on the handle
    closeDone,                \* history: closeDexieDb calls that completed without an error
    closeThrown,              \* history: closeDexieDb calls that ended with an error
    dexieTable,               \* table 'docs': primary key -> document or undefined
    dexieDeletedTable,        \* table 'deleted-docs': primary key -> document or undefined
    fetchPc,                  \* position of the getDocsInDb call
    internals,                \* getDocsInDb: state of the promise passed as internals
    docIds,                   \* getDocsInDb: docIds
    nonDeletedDocsInDb,       \* getDocsInDb: result of dexieTable.bulkGet
    deletedDocsInDb,          \* getDocsInDb: result of dexieDeletedTable.bulkGet
    lookupOrder,              \* history: the tables in the order their bulkGet completed
    docsInDb,                 \* getDocsInDb: the list returned
    fetchError,               \* getDocsInDb: the error the call was rejected with, or "none"
    query,                    \* getDexieSortComparator: query
    documents,                \* the document objects a comparator is called with, by reference
    sortPc,                   \* "idle", then "built" once getDexieSortComparator returned
    mingoSortObject,          \* getDexieSortComparator: mingoSortObject, keys in insertion order
    compared,                 \* the last call of the comparator: <<a, b, result>>
    rxJsonSchema,             \* getDexieStoreSchema: the schema (primary key field, indexes)
    schemaPc,                 \* "idle", then "done" once getDexieStoreSchema returned
    storeSchema               \* getDexieStoreSchema: the string returned

registryVars == <<DEXIE_STATE_DB_BY_NAME, REF_COUNT_PER_DEXIE_DB, handles, pendingClose,
                  settingsHeap, acquireLog, acquired, closeCalled, closeDone, closeThrown>>

docsVars == <<dexieTable, dexieDeletedTable, fetchPc, internals, docIds,
              nonDeletedDocsInDb, deletedDocsInDb, lookupOrder, docsInDb, fetchError>>

sortVars == <<query, documents, sortPc, mingoSortObject, compared>>

schemaVars == <<rxJsonSchema, schemaPc, storeSchema>>

vars == <<registryVars, docsVars, sortVars, schemaVars>>

(***************************************************************************)
(* Bounds of the model.                                                    *)
(***************************************************************************)
MaxAcquire == 3     \* getDexieDbWithTables calls in one behaviour
MaxClose == 3       \* closeDexieDb calls in one behaviour
MaxIds == 3         \* length of the docIds of a getDocsInDb call
MaxSortBlocks == 2  \* length of query.sort
MaxDocs == 3        \* document objects handed to a comparator
MaxIndexes == 2     \* length of rxJsonSchema.indexes

(***************************************************************************)
(* JavaScript values of the reference count: a number, NaN, or undefined   *)
(* (what Map.get returns for a key the map does not hold).                 *)
(***************************************************************************)
Num(n) == <<"number", n>>
NaN == <<"NaN", 0>>
Undefined == <<"undefined", 0>>
IsNum(x) == x[1] = "number"

\* (prevCount as any) - 1: undefined - 1 and NaN - 1 are NaN.
MinusOne(x) == IF IsNum(x) THEN Num(x[2] - 1) ELSE NaN

\* newCount === 0
IsZero(x) == IsNum(x) /\ x[2] = 0

(***************************************************************************)
(* Map.get / Map.set / Map.delete.                                         *)
(***************************************************************************)
MapHas(m, k) == k \in DOMAIN m
MapSet(m, k, v) == [x \in DOMAIN m \cup {k} |-> IF x = k THEN v ELSE m[x]]
MapDelete(m, k) == [x \in DOMAIN m \ {k} |-> m[x]]
EmptyMap == [x \in {} |-> 0]

(***************************************************************************)
(* Names.                                                                  *)
(***************************************************************************)
DatabaseNames == {<<"a">>, <<"a", "-", "-", "b">>}
CollectionNames == {<<"c">>, <<"b", "-", "-", "c">>}

\* 'rxdb-dexie-' + databaseName + '--' + collectionName
DexieDbName(databaseName, collectionName) ==
    <<"r", "x", "d", "b", "-", "d", "e", "x", "i", "e", "-">>
        \o databaseName \o <<"-", "-">> \o collectionName

(***************************************************************************)
(* Handles.  A handle is the promise returned by the async function of     *)
(* getDexieDbWithTables; ids 1, 2, ... in order of creation.  ForeignHandle*)
(* is a resolved DexieStorageInternals promise that a caller built itself  *)
(* and passes to closeDexieDb: the registry never made it.                 *)
(***************************************************************************)
ForeignHandle == 0
HandleIds == 0 .. MaxAcquire
MadeHandles == 1 .. Len(handles)

\* The promise: pending until dexieDb.open() settles.
PromiseOf(h) == IF h = ForeignHandle THEN "fulfilled" ELSE handles[h].promise

\* new Dexie(dexieDbName, useSettings); ...; dexieDb.open() has been called.
\* useSettings is the reference of the settings object the Dexie got.
NewHandle(dexieDbName, useSettings) ==
    [dexieDbName |-> dexieDbName, useSettings |-> useSettings,
     promise |-> "pending", dexieDb |-> "opening", closes |-> 0]

\* The settings objects of the callers: one asks for auto-open, one has no
\* autoOpen field.  A reference is a place of settingsHeap.
CallerSettingsObjects ==
    <<("autoOpen" :> TRUE @@ "allowEmptyDB" :> TRUE), ("allowEmptyDB" :> TRUE)>>
CallerSettings == 1 .. Len(CallerSettingsObjects)

\* flatClone(obj), imported from '../../util': a shallow copy, that is a new
\* object with the fields of obj; the heap with the new object at its end.
flatClone(heap, obj) == Append(heap, heap[obj])

\* useSettings = flatClone(settings); useSettings.autoOpen = false:
\* the heap after the two statements and the reference useSettings.
UseSettingsAliased(heap, settings) ==
    [heap |-> [heap EXCEPT ![settings] =
                   [k \in DOMAIN @ \cup {"autoOpen"} |-> IF k = "autoOpen" THEN FALSE ELSE @[k]]],
     useSettings |-> settings]
UseSettings(heap, settings) ==
    LET cloned == flatClone(heap, settings)
        useSettings == Len(cloned)
    IN  [heap |-> [cloned EXCEPT ![useSettings] =
                      [k \in DOMAIN @ \cup {"autoOpen"} |->
                          IF k = "autoOpen" THEN FALSE ELSE @[k]]],
         useSettings |-> useSettings]

Zeros == [h \in HandleIds |-> 0]

RegistryInit ==
    /\ DEXIE_STATE_DB_BY_NAME = EmptyMap
    /\ REF_COUNT_PER_DEXIE_DB = EmptyMap
    /\ handles = <<>>
    /\ settingsHeap = CallerSettingsObjects
    /\ pendingClose = Zeros
    /\ acquireLog = {}
    /\ acquired = Zeros
    /\ closeCalled = Zeros
    /\ closeDone = Zeros
    /\ closeThrown = Zeros

(***************************************************************************)
(* Documents and the two tables read by getDocsInDb.                       *)
(***************************************************************************)
DEXIE_DOCS_TABLE_NAME == "docs"
DEXIE_DELETED_DOCS_TABLE_NAME == "deleted-docs"

PrimaryKeys == {"x", "y", "z"}

\* undefined: what bulkGet gives for a key the table does not hold.
Absent == [undefined |-> TRUE]

\* A document of table 'docs'.
NonDeletedDoc(id) == ("id" :> id @@ "_deleted" :> FALSE)
\* A document of table 'deleted-docs': it carries the last-write timestamp.
DeletedDoc(id) == ("id" :> id @@ "_deleted" :> TRUE @@ "$lastWriteAt" :> 7)

\* The contents a table can have: each primary key present, with the
\* document docs[id], or not.
TableContents(docs) ==
    {[id \in PrimaryKeys |-> IF id \in present THEN docs[id] ELSE Absent] :
        present \in SUBSET PrimaryKeys}

EmptyTable == [id \in PrimaryKeys |-> Absent]

RECURSIVE SeqsUpTo(_, _)
\* The sequences over S of length at most n.
SeqsUpTo(S, n) ==
    IF n = 0 THEN {<<>>}
    ELSE LET shorter == SeqsUpTo(S, n - 1)
         IN  shorter \cup {Append(q, x) : q \in shorter, x \in S}

\* Table.bulkGet(keys): one slot per key, in the order of the keys.
bulkGet(table, keys) == [i \in 1 .. Len(keys) |-> table[keys[i]]]

\* if (doc): a document is an object, undefined is falsy.
TruthyAlways(doc) == TRUE
Truthy(doc) == doc # Absent

RECURSIVE ForEachOverwrite(_, _, _)
\* nonDeletedDocsInDb.forEach((doc, idx) => { if (doc) docsInDb[idx] = doc })
\* from index idx on.
ForEachOverwrite(result, nonDeleted, idx) ==
    IF idx > Len(nonDeleted) THEN result
    ELSE ForEachOverwrite(
             IF Truthy(nonDeleted[idx])
             THEN [i \in DOMAIN result \cup {idx} |->
                      IF i = idx THEN nonDeleted[idx] ELSE result[i]]
             ELSE result,
             nonDeleted, idx + 1)

\* deletedDocsInDb.slice(0), then the overwrite.
MergeDocs(nonDeleted, deleted) == ForEachOverwrite(deleted, nonDeleted, 1)

DocsIdle ==
    /\ fetchPc = "idle"
    /\ internals = "fulfilled"
    /\ docIds = <<>>
    /\ nonDeletedDocsInDb = <<>>
    /\ deletedDocsInDb = <<>>
    /\ lookupOrder = <<>>
    /\ docsInDb = <<>>
    /\ fetchError = "none"

SortIdle ==
    /\ sortPc = "idle"
    /\ mingoSortObject = <<>>
    /\ compared = <<>>

\* A schema with primary key 'id' and no indexes.
PlainSchema == [primaryKey |-> <<"i", "d">>]

SchemaIdle ==
    /\ schemaPc = "idle"
    /\ storeSchema = <<>>

Init ==
    /\ RegistryInit
    /\ dexieTable = EmptyTable
    /\ dexieDeletedTable = EmptyTable
    /\ DocsIdle
    /\ query = [selector |-> <<>>]
    /\ documents = <<>>
    /\ SortIdle
    /\ rxJsonSchema = PlainSchema
    /\ SchemaIdle

nonRegistryVars == <<docsVars, sortVars, schemaVars>>

RECURSIVE SumUpTo(_, _)
SumUpTo(f, n) == IF n < 0 THEN 0 ELSE f[n] + SumUpTo(f, n - 1)
\* The number of calls counted by a per-handle history counter.
Total(f) == SumUpTo(f, MaxAcquire)

(***************************************************************************)
(* getDexieDbWithTables                                                    *)
(***************************************************************************)
\* DEXIE_STATE_DB_BY_NAME.set(dexieDbName, state)
RegisterStateSkipped(map, dexieDbName, state) == map
RegisterState(map, dexieDbName, state) == MapSet(map, dexieDbName, state)

\* The whole call is synchronous: the async function it starts runs up to
\* `await dexieDb.open()` before the call goes on, so the physical open is
\* under way when the call returns.  The count is set to 0 on creation and
\* no call increments it.
getDexieDbWithTables(databaseName, collectionName, settings) ==
    /\ Total(acquired) < MaxAcquire
    /\ LET dexieDbName == DexieDbName(databaseName, collectionName)
           found == MapHas(DEXIE_STATE_DB_BY_NAME, dexieDbName)
           state == IF found THEN DEXIE_STATE_DB_BY_NAME[dexieDbName]
                    ELSE Len(handles) + 1
       IN  /\ IF found
              THEN UNCHANGED <<DEXIE_STATE_DB_BY_NAME, REF_COUNT_PER_DEXIE_DB, handles,
                               settingsHeap>>
              ELSE /\ settingsHeap' = UseSettings(settingsHeap, settings).heap
                   /\ handles' = Append(handles,
                          NewHandle(dexieDbName, UseSettings(settingsHeap, settings).useSettings))
                   /\ DEXIE_STATE_DB_BY_NAME' =
                          RegisterState(DEXIE_STATE_DB_BY_NAME, dexieDbName, state)
                   /\ REF_COUNT_PER_DEXIE_DB' = MapSet(REF_COUNT_PER_DEXIE_DB, state, Num(0))
           /\ acquireLog' = acquireLog \cup {<<databaseName, collectionName, state>>}
           /\ acquired' = [acquired EXCEPT ![state] = @ + 1]
    /\ UNCHANGED <<pendingClose, closeCalled, closeDone, closeThrown>>
    /\ UNCHANGED nonRegistryVars

\* await dexieDb.open() resolves: the promise is fulfilled with the internals.
OpenSucceeds(h) ==
    /\ handles[h].promise = "pending"
    /\ handles' = [handles EXCEPT ![h].promise = "fulfilled", ![h].dexieDb = "open"]
    /\ UNCHANGED <<DEXIE_STATE_DB_BY_NAME, REF_COUNT_PER_DEXIE_DB, pendingClose,
                   settingsHeap, acquireLog, acquired, closeCalled, closeDone, closeThrown>>
    /\ UNCHANGED nonRegistryVars

\* await dexieDb.open() rejects: the promise is rejected; no line of the
\* function touches the two maps.
OpenFailsSwallowed(h) ==
    /\ handles[h].promise = "pending"
    /\ handles' = [handles EXCEPT ![h].promise = "fulfilled", ![h].dexieDb = "failed"]
    /\ UNCHANGED <<DEXIE_STATE_DB_BY_NAME, REF_COUNT_PER_DEXIE_DB, pendingClose,
                   settingsHeap, acquireLog, acquired, closeCalled, closeDone, closeThrown>>
    /\ UNCHANGED nonRegistryVars
OpenFails(h) ==
    /\ handles[h].promise = "pending"
    /\ handles' = [handles EXCEPT ![h].promise = "rejected", ![h].dexieDb = "failed"]
    /\ UNCHANGED <<DEXIE_STATE_DB_BY_NAME, REF_COUNT_PER_DEXIE_DB, pendingClose,
                   settingsHeap, acquireLog, acquired, closeCalled, closeDone, closeThrown>>
    /\ UNCHANGED nonRegistryVars

(***************************************************************************)
(* closeDexieDb                                                            *)
(***************************************************************************)
\* if (newCount === 0)
ShouldCloseAtOrBelowZero(newCount) == IsNum(newCount) /\ newCount[2] <= 0
ShouldClose(newCount) == IsZero(newCount)

\* REF_COUNT_PER_DEXIE_DB.get(statePromise)
PrevCountStale(statePromise) == Num(0)
PrevCount(statePromise) ==
    IF MapHas(REF_COUNT_PER_DEXIE_DB, statePromise)
    THEN REF_COUNT_PER_DEXIE_DB[statePromise]
    ELSE Undefined

\* The call, up to its suspension at `await statePromise`.
closeDexieDbCall(statePromise) ==
    /\ Total(closeCalled) < MaxClose
    /\ pendingClose' = [pendingClose EXCEPT ![statePromise] = @ + 1]
    /\ closeCalled' = [closeCalled EXCEPT ![statePromise] = @ + 1]
    /\ UNCHANGED <<DEXIE_STATE_DB_BY_NAME, REF_COUNT_PER_DEXIE_DB, handles,
                   settingsHeap, acquireLog, acquired, closeDone, closeThrown>>
    /\ UNCHANGED nonRegistryVars

\* The rest of the call, run in one piece once the promise is fulfilled.
closeDexieDbResume(statePromise) ==
    /\ pendingClose[statePromise] > 0
    /\ PromiseOf(statePromise) = "fulfilled"
    /\ LET prevCount == PrevCount(statePromise)
           newCount == MinusOne(prevCount)
       IN  IF ShouldClose(newCount)
           THEN /\ handles' = IF statePromise = ForeignHandle THEN handles
                              ELSE [handles EXCEPT ![statePromise].dexieDb = "closed",
                                                   ![statePromise].closes = @ + 1]
                /\ REF_COUNT_PER_DEXIE_DB' = MapDelete(REF_COUNT_PER_DEXIE_DB, statePromise)
           ELSE /\ REF_COUNT_PER_DEXIE_DB' =
                       MapSet(REF_COUNT_PER_DEXIE_DB, statePromise, newCount)
                /\ UNCHANGED handles
    /\ pendingClose' = [pendingClose EXCEPT ![statePromise] = @ - 1]
    /\ closeDone' = [closeDone EXCEPT ![statePromise] = @ + 1]
    /\ UNCHANGED <<DEXIE_STATE_DB_BY_NAME, settingsHeap, acquireLog, acquired, closeCalled,
                   closeThrown>>
    /\ UNCHANGED nonRegistryVars

\* `await statePromise` throws the rejection of a failed open: the call ends
\* with that error before it reads the count.
closeDexieDbThrow(statePromise) ==
    /\ pendingClose[statePromise] > 0
    /\ PromiseOf(statePromise) = "rejected"
    /\ pendingClose' = [pendingClose EXCEPT ![statePromise] = @ - 1]
    /\ closeThrown' = [closeThrown EXCEPT ![statePromise] = @ + 1]
    /\ UNCHANGED <<DEXIE_STATE_DB_BY_NAME, REF_COUNT_PER_DEXIE_DB, handles,
                   settingsHeap, acquireLog, acquired, closeCalled, closeDone>>
    /\ UNCHANGED nonRegistryVars

Next ==
    \/ \E databaseName \in DatabaseNames, collectionName \in CollectionNames,
          settings \in CallerSettings :
           getDexieDbWithTables(databaseName, collectionName, settings)
    \/ \E h \in MadeHandles : OpenSucceeds(h)
    \/ \E h \in MadeHandles : OpenFails(h)
    \/ \E statePromise \in MadeHandles \cup {ForeignHandle} : closeDexieDbCall(statePromise)
    \/ \E statePromise \in MadeHandles \cup {ForeignHandle} : closeDexieDbResume(statePromise)
    \/ \E statePromise \in MadeHandles : closeDexieDbThrow(statePromise)

Spec == Init /\ [][Next]_vars

(***************************************************************************)
(* Properties of the connection registry.                                  *)
(***************************************************************************)
\* The registry entries that hold handle h.
EntriesOf(h) == {n \in DOMAIN DEXIE_STATE_DB_BY_NAME : DEXIE_STATE_DB_BY_NAME[n] = h}

\* C1: all getDexieDbWithTables calls for one database name and collection
\* name return the same handle, also the calls made while the creation is
\* pending, and one dexieDbName is opened at most once.
C1_OneOpenOneHandle ==
    /\ \A e1, e2 \in acquireLog :
           (e1[1] = e2[1] /\ e1[2] = e2[2]) => e1[3] = e2[3]
    /\ \A h1, h2 \in MadeHandles :
           handles[h1].dexieDbName = handles[h2].dexieDbName => h1 = h2

\* Three calls for one pair of names got one handle whose creation is pending.
C1_Witness ==
    \E h \in MadeHandles :
        /\ acquired[h] = 3
        /\ Cardinality({e \in acquireLog : e[3] = h}) = 1
        /\ handles[h].promise = "pending"

\* C2: once a handle was acquired N >= 1 times and released N times, its
\* connection has been closed exactly once, and not before the Nth release.
C2_ClosedOnceAtLastRelease ==
    \A h \in MadeHandles :
        /\ (acquired[h] >= 1 /\ closeDone[h] = acquired[h]) => handles[h].closes = 1
        /\ closeDone[h] < acquired[h] => handles[h].closes = 0

\* C3: while more getDexieDbWithTables calls returned a handle than
\* closeDexieDb calls completed on it, its connection has not been closed.
C3_HeldHandleStaysOpen ==
    \A h \in MadeHandles :
        acquired[h] > closeDone[h] =>
            handles[h].closes = 0 /\ handles[h].dexieDb # "closed"

\* A handle acquired twice and released once, its connection open.
C3_Witness ==
    \E h \in MadeHandles :
        acquired[h] = 2 /\ closeDone[h] = 1 /\ handles[h].dexieDb = "open"

\* C4: once every reference to a handle is released the registry holds no
\* entry for it, and no later call returns the retired handle.
C4_RetiredHandleLeavesRegistry ==
    [][\A h \in MadeHandles :
           (acquired[h] >= 1 /\ closeDone[h] = acquired[h]) =>
               EntriesOf(h) = {} /\ acquired'[h] = acquired[h]]_vars

\* C5: the stored count of a held handle is the number of calls that returned
\* it minus the number of completed closeDexieDb calls on it.
C5_CountIsAcquiresMinusReleases ==
    \A h \in MadeHandles :
        closeDone[h] < acquired[h] =>
            PrevCount(h) = Num(acquired[h] - closeDone[h])

\* C6: a handle whose open failed is not in the registry.
C6_FailedEntryEvicted ==
    \A h \in MadeHandles :
        handles[h].promise = "rejected" => EntriesOf(h) = {}

\* C7: no closeDexieDb call completes without an error on a handle that has no
\* reference left to release, and no count stored is negative or not a number.
C7_MisuseIsReported ==
    /\ \A h \in HandleIds : closeDone[h] <= acquired[h]
    /\ \A h \in DOMAIN REF_COUNT_PER_DEXIE_DB :
           IsNum(REF_COUNT_PER_DEXIE_DB[h]) /\ REF_COUNT_PER_DEXIE_DB[h][2] >= 0

\* C14: once the open of a handle has failed, whoever awaits the handle gets
\* the rejection, the callers that got the handle before the failure and the
\* ones that got it after alike: the one promise they all hold is rejected,
\* every release that has passed its await has thrown, none has gone on.
C14_FailureReachesEveryWaiter ==
    \A h \in MadeHandles :
        handles[h].dexieDb = "failed" =>
            /\ PromiseOf(h) = "rejected"
            /\ closeDone[h] = 0
            /\ closeCalled[h] = closeThrown[h] + pendingClose[h]
            /\ \A e \in acquireLog :
                   DexieDbName(e[1], e[2]) = handles[h].dexieDbName => e[3] = h

\* Two callers hold a handle whose open failed, and both have awaited it in
\* closeDexieDb and got the error.
C14_Witness ==
    \E h \in MadeHandles :
        /\ handles[h].dexieDb = "failed"
        /\ acquired[h] = 2
        /\ closeThrown[h] = 2

\* C16: no release loses its update of the count: after m releases of a
\* handle have run to their end the count stored for it is m lower than the
\* one stored on creation, whatever calls were interleaved at the awaits.
C16_NoLostUpdate ==
    \A h \in MadeHandles :
        /\ MapHas(REF_COUNT_PER_DEXIE_DB, h)
        /\ REF_COUNT_PER_DEXIE_DB[h] = Num(0 - closeDone[h])

\* Three releases of one handle were suspended together at the await; two
\* have run to their end and the count is 2 lower.
C16_Witness ==
    \E h \in MadeHandles :
        /\ closeCalled[h] = 3
        /\ closeDone[h] = 2
        /\ pendingClose[h] = 1
        /\ REF_COUNT_PER_DEXIE_DB[h] = Num(0 - 2)

\* C17: two calls of getDexieDbWithTables that got the same handle were made
\* with the same databaseName and the same collectionName.
C17_SameHandleSameNames ==
    \A e1, e2 \in acquireLog :
        e1[3] = e2[3] => (e1[1] = e2[1] /\ e1[2] = e2[2])

\* C18: no call of getDexieDbWithTables changes a settings object of a
\* caller: each Dexie was made with an object of its own that has the fields
\* of a caller's object but autoOpen false, and the callers' objects are as
\* they were made.
C18_CallerSettingsUntouched ==
    /\ \A settings \in CallerSettings :
           settingsHeap[settings] = CallerSettingsObjects[settings]
    /\ \A h \in MadeHandles :
           LET useSettings == handles[h].useSettings
           IN  /\ useSettings \notin CallerSettings
               /\ \A other \in MadeHandles : other # h => handles[other].useSettings # useSettings
               /\ settingsHeap[useSettings]["autoOpen"] = FALSE
               /\ \E settings \in CallerSettings :
                      /\ DOMAIN settingsHeap[useSettings]
                             = DOMAIN settingsHeap[settings] \cup {"autoOpen"}
                      /\ \A k \in DOMAIN settingsHeap[settings] \ {"autoOpen"} :
                             settingsHeap[useSettings][k] = settingsHeap[settings][k]

\* Two Dexie databases were made from the callers' settings objects: each has
\* its own object with autoOpen false, and the caller's autoOpen is still true.
C18_Witness ==
    /\ Len(handles) = 2
    /\ Len(settingsHeap) = Len(CallerSettingsObjects) + 2
    /\ settingsHeap[1]["autoOpen"] = TRUE
    /\ "autoOpen" \notin DOMAIN settingsHeap[2]
    /\ settingsHeap[handles[1].useSettings]["autoOpen"] = FALSE
    /\ settingsHeap[handles[2].useSettings]["autoOpen"] = FALSE

(***************************************************************************)
(* getDocsInDb                                                             *)
(***************************************************************************)
\* The call, up to its suspension at `await internals`.
getDocsInDbCall(ids, internalsPromise) ==
    /\ fetchPc = "idle"
    /\ fetchPc' = "await internals"
    /\ docIds' = ids
    /\ internals' = internalsPromise
    /\ UNCHANGED <<dexieTable, dexieDeletedTable, nonDeletedDocsInDb, deletedDocsInDb,
                   lookupOrder, docsInDb, fetchError, registryVars, sortVars, schemaVars>>

\* The handle is ready: both bulkGet calls are issued and awaited together.
getDocsInDbLookups ==
    /\ fetchPc = "await internals"
    /\ internals = "fulfilled"
    /\ fetchPc' = "await lookups"
    /\ UNCHANGED <<dexieTable, dexieDeletedTable, internals, docIds, nonDeletedDocsInDb,
                   deletedDocsInDb, lookupOrder, docsInDb, fetchError, registryVars, sortVars,
                   schemaVars>>

\* The handle's open failed: `await internals` throws.
getDocsInDbThrow ==
    /\ fetchPc = "await internals"
    /\ internals = "rejected"
    /\ fetchPc' = "thrown"
    /\ fetchError' = "open failed"
    /\ UNCHANGED <<dexieTable, dexieDeletedTable, internals, docIds, nonDeletedDocsInDb,
                   deletedDocsInDb, lookupOrder, docsInDb, registryVars, sortVars, schemaVars>>

\* The place of a lookup's result in the array Promise.all resolves to: the
\* place of its promise in the array passed, not its place in the order of
\* completion.
PromiseAllSlotByArrival(tableName, completed) == Len(completed) + 1
PromiseAllSlot(tableName, completed) ==
    IF tableName = DEXIE_DOCS_TABLE_NAME THEN 1 ELSE 2

\* The table of state a bulkGet reads.
TableNamed(tableName) ==
    IF tableName = DEXIE_DOCS_TABLE_NAME THEN dexieTable ELSE dexieDeletedTable

\* One of the two lookups completes; the destructuring of the awaited array
\* gives the first place to nonDeletedDocsInDb, the second to deletedDocsInDb.
bulkGetDone(tableName) ==
    /\ fetchPc = "await lookups"
    /\ \A i \in 1 .. Len(lookupOrder) : lookupOrder[i] # tableName
    /\ lookupOrder' = Append(lookupOrder, tableName)
    /\ IF PromiseAllSlot(tableName, lookupOrder) = 1
       THEN /\ nonDeletedDocsInDb' = bulkGet(TableNamed(tableName), docIds)
            /\ UNCHANGED deletedDocsInDb
       ELSE /\ deletedDocsInDb' = bulkGet(TableNamed(tableName), docIds)
            /\ UNCHANGED nonDeletedDocsInDb
    /\ UNCHANGED <<dexieTable, dexieDeletedTable, fetchPc, internals, docIds, docsInDb,
                   fetchError, registryVars, sortVars, schemaVars>>

\* One of the two lookups rejects (an I/O failure of the engine) before it
\* completed: Promise.all rejects with that error at once, whether or not the
\* other lookup has settled, and the await throws it out of the call.
bulkGetFails(tableName) ==
    /\ fetchPc = "await lookups"
    /\ \A i \in 1 .. Len(lookupOrder) : lookupOrder[i] # tableName
    /\ fetchPc' = "thrown"
    /\ fetchError' = "bulkGet failed"
    /\ UNCHANGED <<dexieTable, dexieDeletedTable, internals, docIds, nonDeletedDocsInDb,
                   deletedDocsInDb, lookupOrder, docsInDb, registryVars, sortVars, schemaVars>>

\* Both lookups are in: merge and return.
getDocsInDbReturn ==
    /\ fetchPc = "await lookups"
    /\ Len(lookupOrder) = 2
    /\ docsInDb' = MergeDocs(nonDeletedDocsInDb, deletedDocsInDb)
    /\ fetchPc' = "done"
    /\ UNCHANGED <<dexieTable, dexieDeletedTable, internals, docIds, nonDeletedDocsInDb,
                   deletedDocsInDb, lookupOrder, fetchError, registryVars, sortVars, schemaVars>>

DocsInit ==
    /\ RegistryInit
    /\ dexieTable \in TableContents([id \in PrimaryKeys |-> NonDeletedDoc(id)])
    /\ dexieDeletedTable \in TableContents([id \in PrimaryKeys |-> DeletedDoc(id)])
    /\ DocsIdle
    /\ query = [selector |-> <<>>]
    /\ documents = <<>>
    /\ SortIdle
    /\ rxJsonSchema = PlainSchema
    /\ SchemaIdle

DocsNext ==
    \/ \E ids \in SeqsUpTo(PrimaryKeys, MaxIds), internalsPromise \in {"fulfilled", "rejected"} :
           getDocsInDbCall(ids, internalsPromise)
    \/ getDocsInDbLookups
    \/ getDocsInDbThrow
    \/ \E tableName \in {DEXIE_DOCS_TABLE_NAME, DEXIE_DELETED_DOCS_TABLE_NAME} :
           bulkGetDone(tableName)
    \/ \E tableName \in {DEXIE_DOCS_TABLE_NAME, DEXIE_DELETED_DOCS_TABLE_NAME} :
           bulkGetFails(tableName)
    \/ getDocsInDbReturn

SpecDocs == DocsInit /\ [][DocsNext]_vars

\* C8: the list returned has one slot per id, in the order of the ids; a slot
\* holds the document of table 'docs' if there is one, else the document of
\* table 'deleted-docs' if there is one, else undefined; and the call throws
\* only the error of a failed handle or of a failed lookup, never for a miss:
\* once both lookups have completed it returns.
C8_ActiveElseTombstoneElseAbsent ==
    /\ fetchPc = "done" =>
           /\ Len(docsInDb) = Len(docIds)
           /\ \A i \in 1 .. Len(docIds) :
                  docsInDb[i] = IF dexieTable[docIds[i]] # Absent
                                THEN dexieTable[docIds[i]]
                                ELSE IF dexieDeletedTable[docIds[i]] # Absent
                                     THEN dexieDeletedTable[docIds[i]]
                                     ELSE Absent
    /\ fetchPc = "thrown" =>
           \/ fetchError = "open failed" /\ internals = "rejected"
           \/ fetchError = "bulkGet failed" /\ internals = "fulfilled" /\ Len(lookupOrder) < 2
    /\ Len(lookupOrder) = 2 => fetchPc \in {"await lookups", "done"}
    /\ fetchPc # "thrown" => fetchError = "none"

\* A call returned for three ids: one in both tables, one only in
\* 'deleted-docs', one in neither.
C8_Witness ==
    /\ fetchPc = "done"
    /\ Len(docIds) = 3
    /\ dexieTable[docIds[1]] # Absent /\ dexieDeletedTable[docIds[1]] # Absent
    /\ docsInDb[1] = NonDeletedDoc(docIds[1])
    /\ dexieTable[docIds[2]] = Absent /\ dexieDeletedTable[docIds[2]] # Absent
    /\ docsInDb[2] = DeletedDoc(docIds[2])
    /\ dexieTable[docIds[3]] = Absent /\ dexieDeletedTable[docIds[3]] = Absent
    /\ docsInDb[3] = Absent

\* C11: no record of the list returned carries the field $lastWriteAt, the
\* records that come from table 'deleted-docs' included.
C11_NoLastWriteAtReturned ==
    fetchPc = "done" =>
        \A i \in 1 .. Len(docsInDb) :
            docsInDb[i] # Absent => "$lastWriteAt" \notin DOMAIN docsInDb[i]

\* C13: for given tables and ids the list returned is the same whichever
\* lookup completes first: each lookup's result is that of its own table,
\* and the list is the merge of the two, whatever the order of completion.
C13_CompletionOrderIrrelevant ==
    /\ Len(lookupOrder) = 2 =>
           /\ nonDeletedDocsInDb = bulkGet(dexieTable, docIds)
           /\ deletedDocsInDb = bulkGet(dexieDeletedTable, docIds)
    /\ fetchPc = "done" =>
           docsInDb = MergeDocs(bulkGet(dexieTable, docIds),
                                bulkGet(dexieDeletedTable, docIds))

\* A call returned whose lookup in 'deleted-docs' completed first, for an id
\* held by both tables: the list holds the document of 'docs'.
C13_Witness ==
    /\ fetchPc = "done"
    /\ lookupOrder = <<DEXIE_DELETED_DOCS_TABLE_NAME, DEXIE_DOCS_TABLE_NAME>>
    /\ Len(docIds) >= 1
    /\ dexieTable[docIds[1]] # Absent /\ dexieDeletedTable[docIds[1]] # Absent
    /\ docsInDb[1] = NonDeletedDoc(docIds[1])

(***************************************************************************)
(* getDexieSortComparator                                                  *)
(***************************************************************************)
\* getPrimaryFieldOfPrimaryKey(schema.primaryKey) of the schemas modelled.
SortPrimaryKey == "id"

SortFields == {"id", "age"}
SortDirections == {"asc", "desc"}
\* A sort block {field: direction}, as the pair <<field, direction>>.
SortBlocks == SortFields \X SortDirections

\* The queries: without a sort, and with each list of sort blocks.
Queries ==
    {[selector |-> <<>>]}
        \cup {[selector |-> <<>>, sort |-> blocks] : blocks \in SeqsUpTo(SortBlocks, MaxSortBlocks)}

\* The values of the fields of a document, as numbers.
DocValues == [id : 1 .. 3, age : 1 .. 2]

\* The lists of MaxDocs document objects.  Which object has which reference
\* makes no difference to a comparator, so each collection of objects is
\* listed once, ordered by (id, age); equal documents are separate objects.
DocumentLists ==
    {docs \in [1 .. MaxDocs -> DocValues] :
        \A i \in 1 .. MaxDocs - 1 :
            \/ docs[i].id < docs[i + 1].id
            \/ docs[i].id = docs[i + 1].id /\ docs[i].age <= docs[i + 1].age}

sortDirectionToMingo(direction) == IF direction = "asc" THEN 1 ELSE -1

\* obj[key] = value on an object whose keys are kept in insertion order: a
\* key the object has keeps its place and takes the new value.
ObjSetAppend(obj, key, value) == Append(obj, <<key, value>>)
ObjSet(obj, key, value) ==
    IF \E i \in 1 .. Len(obj) : obj[i][1] = key
    THEN [i \in 1 .. Len(obj) |-> IF obj[i][1] = key THEN <<key, value>> ELSE obj[i]]
    ELSE Append(obj, <<key, value>>)

RECURSIVE ForEachSortBlock(_, _, _)
\* query.sort.forEach(sortBlock => { ... }) from block i on, on the pair
\* <<mingoSortObject, wasPrimaryInSort>>.
ForEachSortBlock(acc, sort, i) ==
    IF i > Len(sort) THEN acc
    ELSE LET key == sort[i][1]
             direction == sort[i][2]
         IN  ForEachSortBlock(
                 <<ObjSet(acc[1], key, sortDirectionToMingo(direction)),
                   acc[2] \/ key = SortPrimaryKey>>,
                 sort, i + 1)

\* if (!wasPrimaryInSort) mingoSortObject[primaryKey] = 1
EnsurePrimarySkipped(obj, wasPrimaryInSort) == obj
EnsurePrimary(obj, wasPrimaryInSort) ==
    IF ~wasPrimaryInSort THEN ObjSet(obj, SortPrimaryKey, 1) ELSE obj

\* The mingoSortObject getDexieSortComparator builds for a query.
BuildMingoSortObject(q) ==
    LET looped == IF "sort" \in DOMAIN q
                  THEN ForEachSortBlock(<<<<>>, FALSE>>, q.sort, 1)
                  ELSE <<<<>>, FALSE>>
    IN  EnsurePrimary(looped[1], looped[2])

RECURSIVE Ascending(_)
\* The numbers of a set in ascending order.
Ascending(S) ==
    IF S = {} THEN <<>>
    ELSE LET least == CHOOSE x \in S : \A y \in S : x <= y
         IN  <<least>> \o Ascending(S \ {least})

Reverse(q) == [i \in 1 .. Len(q) |-> q[Len(q) + 1 - i]]

RECURSIVE ConcatGroups(_, _, _, _)
\* The groups of the collection, one per value of the key, in the order of
\* sortedKeys, each group in the order its members had.
ConcatGroups(coll, key, sortedKeys, i) ==
    IF i > Len(sortedKeys) THEN <<>>
    ELSE SelectSeq(coll, LAMBDA ref : documents[ref][key] = sortedKeys[i])
             \o ConcatGroups(coll, key, sortedKeys, i + 1)

\* One pass of mingo's sort: group by the value of the key, sort the values,
\* reverse them for -1, concatenate the groups.
SortByKey(coll, key, direction) ==
    LET values == Ascending({documents[coll[i]][key] : i \in 1 .. Len(coll)})
        sortedKeys == IF direction = -1 THEN Reverse(values) ELSE values
    IN  ConcatGroups(coll, key, sortedKeys, 1)

RECURSIVE SortPasses(_, _, _)
\* The passes for keys k, k - 1, ..., 1 of the sort object.
SortPasses(coll, sortObject, k) ==
    IF k = 0 THEN coll
    ELSE SortPasses(SortByKey(coll, sortObject[k][1], sortObject[k][2]), sortObject, k - 1)

\* mingo.find(collection, {}).sort(sortObject): a stable sort by the keys of
\* the sort object, first key most significant; an empty sort object leaves
\* the collection as it is.  The collection holds references.
MingoSort(coll, sortObject) == SortPasses(coll, sortObject, Len(sortObject))

\* The comparator: -1 if the first of the two sorted is the object a, else 1.
funSwapped(a, b) ==
    LET sorted == MingoSort(<<a, b>>, mingoSortObject)
        first == sorted[1]
    IN  IF first = a THEN 1 ELSE -1
fun(a, b) ==
    LET sorted == MingoSort(<<a, b>>, mingoSortObject)
        first == sorted[1]
    IN  IF first = a THEN -1 ELSE 1

\* getDexieSortComparator(schema, query): builds the sort object and returns fun.
getDexieSortComparator ==
    /\ sortPc = "idle"
    /\ mingoSortObject' = BuildMingoSortObject(query)
    /\ sortPc' = "built"
    /\ UNCHANGED <<query, documents, compared, registryVars, docsVars, schemaVars>>

\* A call fun(a, b) of the comparator returned.  The comparator keeps no
\* state, so one call in a behaviour shows all a call can do.
CallComparator(a, b) ==
    /\ sortPc = "built"
    /\ compared = <<>>
    /\ compared' = <<a, b, fun(a, b)>>
    /\ UNCHANGED <<query, documents, sortPc, mingoSortObject, registryVars, docsVars, schemaVars>>

SortInit ==
    /\ RegistryInit
    /\ dexieTable = EmptyTable
    /\ dexieDeletedTable = EmptyTable
    /\ DocsIdle
    /\ query \in Queries
    /\ documents \in DocumentLists
    /\ SortIdle
    /\ rxJsonSchema = PlainSchema
    /\ SchemaIdle

SortNext ==
    \/ getDexieSortComparator
    \/ \E a \in DOMAIN documents, b \in DOMAIN documents : CallComparator(a, b)

SpecSort == SortInit /\ [][SortNext]_vars

\* C9: on documents with different primary keys the comparator is a strict
\* total order: it never returns 0, of fun(a, b) and fun(b, a) exactly one is
\* -1, and fun(a, b) = -1 and fun(b, c) = -1 give fun(a, c) = -1.
C9_StrictTotalOrder ==
    /\ compared # <<>> => compared[3] \in {-1, 1}
    /\ (sortPc = "built" /\ compared = <<>>) =>
        LET result == [a \in DOMAIN documents, b \in DOMAIN documents |-> fun(a, b)]
            Distinct(a, b) == documents[a][SortPrimaryKey] # documents[b][SortPrimaryKey]
        IN  /\ \A a, b \in DOMAIN documents :
                   Distinct(a, b) =>
                       /\ result[a, b] \in {-1, 1}
                       /\ (result[a, b] = -1) # (result[b, a] = -1)
            /\ \A a, b, c \in DOMAIN documents :
                   (Distinct(a, b) /\ Distinct(b, c) /\ Distinct(a, c)
                        /\ result[a, b] = -1 /\ result[b, c] = -1)
                       => result[a, c] = -1

\* The comparator of a query sorted by age alone was called on two documents
\* of the same age, which only the primary key tells apart, and put the one
\* with the smaller primary key first although it was passed second.
C9_Witness ==
    /\ sortPc = "built"
    /\ "sort" \in DOMAIN query
    /\ query.sort = <<<<"age", "desc">>>>
    /\ compared # <<>>
    /\ documents[compared[1]].age = documents[compared[2]].age
    /\ documents[compared[1]].id > documents[compared[2]].id
    /\ compared[3] = 1

\* The sort blocks of the query, none for a query without sort.
C15_CallerSort == IF "sort" \in DOMAIN query THEN query.sort ELSE <<>>

\* The blocks that mention a key for the first time.
C15_FirstMentions ==
    LET sort == C15_CallerSort
    IN  {i \in 1 .. Len(sort) : \A k \in 1 .. i - 1 : sort[k][1] # sort[i][1]}

\* The direction the caller gives a key: the one of its last mention.
C15_CallerDirection(key) ==
    LET sort == C15_CallerSort
        last == CHOOSE i \in 1 .. Len(sort) :
                    /\ sort[i][1] = key
                    /\ \A k \in i + 1 .. Len(sort) : sort[k][1] # key
    IN  IF sort[last][2] = "asc" THEN 1 ELSE -1

\* C15: the list built holds the primary key exactly once; a list of sort
\* blocks with distinct keys that names the primary key is taken as it is,
\* one that does not name it is taken as it is with the primary key added
\* last, ascending; a key named more than once stands where it was first
\* named.
C15_PrimaryKeyExactlyOnce ==
    sortPc = "built" =>
        LET sort == C15_CallerSort
            named == \E i \in 1 .. Len(sort) : sort[i][1] = SortPrimaryKey
            kept == Len(mingoSortObject) - (IF named THEN 0 ELSE 1)
        IN  /\ Cardinality({i \in 1 .. Len(mingoSortObject) :
                                mingoSortObject[i][1] = SortPrimaryKey}) = 1
            /\ kept = Cardinality(C15_FirstMentions)
            /\ ~named => mingoSortObject[Len(mingoSortObject)] = <<SortPrimaryKey, 1>>
            /\ \A i \in 1 .. kept :
                   /\ Cardinality({k \in C15_FirstMentions :
                                      sort[k][1] = mingoSortObject[i][1]}) = 1
                   /\ mingoSortObject[i][2] = C15_CallerDirection(mingoSortObject[i][1])
                   /\ \A k \in 1 .. kept :
                          LET mi == CHOOSE m \in C15_FirstMentions :
                                        sort[m][1] = mingoSortObject[i][1]
                              mk == CHOOSE m \in C15_FirstMentions :
                                        sort[m][1] = mingoSortObject[k][1]
                          IN  i < k <=> mi < mk
            /\ Cardinality(C15_FirstMentions) = Len(sort) =>
                   SubSeq(mingoSortObject, 1, kept)
                       = [i \in 1 .. Len(sort) |->
                             <<sort[i][1], IF sort[i][2] = "asc" THEN 1 ELSE -1>>]

\* The list built for the sort [{id: 'desc'}, {age: 'asc'}]: the primary
\* key first and descending, as the caller put it.
C15_Witness ==
    /\ sortPc = "built"
    /\ C15_CallerSort = <<<<"id", "desc">>, <<"age", "asc">>>>
    /\ mingoSortObject = <<<<"id", -1>>, <<"age", 1>>>>

\* C19 as stated: a call of the comparator with one document object as both
\* arguments returns 1.
C19_SelfCompareGreater ==
    (compared # <<>> /\ compared[1] = compared[2]) => compared[3] = 1

\* C19 amended: a call of the comparator with one document object as both
\* arguments returns -1.
C19_SelfCompareLess ==
    (compared # <<>> /\ compared[1] = compared[2]) => compared[3] = 0 - 1

\* The comparator was called with the object 2 as both arguments.
C19_Witness ==
    /\ compared # <<>>
    /\ compared[1] = 2 /\ compared[2] = 2
    /\ compared[3] = 0 - 1

(***************************************************************************)
(* dexieReplaceIfStartsWithPipe and getDexieStoreSchema                    *)
(***************************************************************************)
DEXIE_PIPE_SUBSTITUTE == <<"R", "x", "D", "B", "S", "u", "b", "s", "t", "P", "I", "P", "E">>

dexieReplaceNothing(str) == str
dexieReplaceIfStartsWithPipe(str) ==
    IF Len(str) >= 1 /\ str[1] = "|"
    THEN LET withoutFirst == SubSeq(str, 2, Len(str))
         IN  DEXIE_PIPE_SUBSTITUTE \o withoutFirst
    ELSE str

\* An index of a schema: a field name, or an array of field names.
StringIndex(name) == [string |-> name]
ArrayIndex(names) == [array |-> names]

\* Array.isArray(index) ? index : [index]
ArIndex(index) == IF "array" \in DOMAIN index THEN index.array ELSE <<index.string>>

\* The indexes a schema declares here; '|d' is a key-compressed field name.
Indexes ==
    {StringIndex(<<"a">>), StringIndex(<<"|", "d">>),
     ArrayIndex(<<<<"a">>>>), ArrayIndex(<<<<"b">>, <<"c">>>>),
     ArrayIndex(<<<<"c">>, <<"b">>>>), ArrayIndex(<<<<"|", "d">>, <<"a">>>>),
     ArrayIndex(<<<<"a">>, <<"b">>, <<"c">>>>)}

\* The primary key fields, getPrimaryFieldOfPrimaryKey(rxJsonSchema.primaryKey).
PrimaryKeyFields == {<<"i", "d">>, <<"|", "i", "d">>}

\* The schemas: without indexes, and with each list of indexes.
Schemas ==
    [primaryKey : PrimaryKeyFields]
        \cup [primaryKey : PrimaryKeyFields, indexes : SeqsUpTo(Indexes, MaxIndexes)]

RECURSIVE Join(_, _)
\* Array.prototype.join(separator) on an array of strings.
Join(strings, separator) ==
    IF Len(strings) = 0 THEN <<>>
    ELSE IF Len(strings) = 1 THEN strings[1]
    ELSE strings[1] \o separator \o Join(Tail(strings), separator)

\* parts after the pushes: the primary key, then each index as an array.
PartsOf(schema) ==
    <<<<schema.primaryKey>>>>
        \o (IF "indexes" \in DOMAIN schema
            THEN [i \in 1 .. Len(schema.indexes) |-> ArIndex(schema.indexes[i])]
            ELSE <<>>)

\* parts.map(part => part.map(str => dexieReplaceIfStartsWithPipe(str)))
EscapeParts(parts) ==
    [i \in 1 .. Len(parts) |->
        [j \in 1 .. Len(parts[i]) |-> dexieReplaceIfStartsWithPipe(parts[i][j])]]

\* part.length === 1 ? part[0] : '[' + part.join('+') + ']'
RenderPartBracketed(part) == <<"[">> \o Join(part, <<"+">>) \o <<"]">>
RenderPart(part) ==
    IF Len(part) = 1 THEN part[1]
    ELSE <<"[">> \o Join(part, <<"+">>) \o <<"]">>

\* The string getDexieStoreSchema returns.
StoreSchemaOf(schema) ==
    LET parts == EscapeParts(PartsOf(schema))
    IN  Join([i \in 1 .. Len(parts) |-> RenderPart(parts[i])], <<",", " ">>)

getDexieStoreSchema ==
    /\ schemaPc = "idle"
    /\ storeSchema' = StoreSchemaOf(rxJsonSchema)
    /\ schemaPc' = "done"
    /\ UNCHANGED <<rxJsonSchema, registryVars, docsVars, sortVars>>

SchemaInit ==
    /\ RegistryInit
    /\ dexieTable = EmptyTable
    /\ dexieDeletedTable = EmptyTable
    /\ DocsIdle
    /\ query = [selector |-> <<>>]
    /\ documents = <<>>
    /\ SortIdle
    /\ rxJsonSchema \in Schemas
    /\ SchemaIdle

SchemaNext == getDexieStoreSchema

SpecSchema == SchemaInit /\ [][SchemaNext]_vars

\* The groups the claim speaks of: the primary key alone, then the fields of
\* each declared index in declaration order.
C10_IndexCount == IF "indexes" \in DOMAIN rxJsonSchema THEN Len(rxJsonSchema.indexes) ELSE 0

C10_Groups ==
    [i \in 0 .. C10_IndexCount |->
        IF i = 0 THEN <<rxJsonSchema.primaryKey>>
        ELSE IF "array" \in DOMAIN rxJsonSchema.indexes[i]
             THEN rxJsonSchema.indexes[i].array
             ELSE <<rxJsonSchema.indexes[i].string>>]

RECURSIVE C10_PlusJoined(_, _)
\* The escaped fields of a group from field j on, each but the first after '+'.
C10_PlusJoined(group, j) ==
    IF j > Len(group) THEN <<>>
    ELSE (IF j = 1 THEN <<>> ELSE <<"+">>)
             \o dexieReplaceIfStartsWithPipe(group[j]) \o C10_PlusJoined(group, j + 1)

\* A group as the claim renders it.
C10_Token(group) ==
    IF Len(group) = 1 THEN dexieReplaceIfStartsWithPipe(group[1])
    ELSE <<"[">> \o C10_PlusJoined(group, 1) \o <<"]">>

RECURSIVE C10_Rendered(_)
\* Groups 0 .. i as the claim renders them, each but the first after ', '.
C10_Rendered(i) ==
    IF i = 0 THEN C10_Token(C10_Groups[0])
    ELSE C10_Rendered(i - 1) \o <<",", " ">> \o C10_Token(C10_Groups[i])

\* C10: the string returned is the escaped primary key, then one group per
\* index in declaration order, a one-field group bare and a longer one as
\* '[' fields joined by '+' ']', joined by ', '; and it is 'id, a, [b+c]' for
\* primary key id and indexes [["a"], ["b", "c"]].
C10_StoreSchemaRendering ==
    schemaPc = "done" =>
        /\ storeSchema = C10_Rendered(C10_IndexCount)
        /\ LET first == dexieReplaceIfStartsWithPipe(rxJsonSchema.primaryKey)
           IN  SubSeq(storeSchema, 1, Len(first)) = first
        /\ rxJsonSchema = [primaryKey |-> <<"i", "d">>,
                           indexes |-> <<ArrayIndex(<<<<"a">>>>),
                                         ArrayIndex(<<<<"b">>, <<"c">>>>)>>]
               => storeSchema = <<"i", "d", ",", " ", "a", ",", " ", "[", "b", "+", "c", "]">>

\* getDexieStoreSchema returned 'id, a, [b+c]' for the schema of the claim.
C10_Witness ==
    /\ schemaPc = "done"
    /\ rxJsonSchema = [primaryKey |-> <<"i", "d">>,
                       indexes |-> <<ArrayIndex(<<<<"a">>>>), ArrayIndex(<<<<"b">>, <<"c">>>>)>>]
    /\ storeSchema = <<"i", "d", ",", " ", "a", ",", " ", "[", "b", "+", "c", "]">>

\* The places of the string returned where a field name starts: the first,
\* and each one after ' ', '[' or '+'.
C12_FieldStarts ==
    {p \in 1 .. Len(storeSchema) : p = 1 \/ storeSchema[p - 1] \in {" ", "[", "+"}}

\* C12: the escape gives back a name that does not start with '|' as it is,
\* and replaces the leading '|' of one that does by 'RxDBSubstPIPE', the rest
\* kept; so no field name of the string getDexieStoreSchema returns starts
\* with '|'.
C12_NoLeadingPipe ==
    schemaPc = "done" =>
        /\ \A i \in 0 .. C10_IndexCount : \A j \in 1 .. Len(C10_Groups[i]) :
               LET str == C10_Groups[i][j]
               IN  IF Len(str) >= 1 /\ str[1] = "|"
                   THEN dexieReplaceIfStartsWithPipe(str)
                            = <<"R", "x", "D", "B", "S", "u", "b", "s", "t", "P", "I", "P", "E">>
                                  \o Tail(str)
                   ELSE dexieReplaceIfStartsWithPipe(str) = str
        /\ \A p \in C12_FieldStarts : storeSchema[p] # "|"

\* getDexieStoreSchema returned for a primary key '|id' and the index
\* ['|d', 'a']: both names start with the substitute in the string.
C12_Witness ==
    /\ schemaPc = "done"
    /\ rxJsonSchema = [primaryKey |-> <<"|", "i", "d">>,
                       indexes |-> <<ArrayIndex(<<<<"|", "d">>, <<"a">>>>)>>]
    /\ storeSchema = DEXIE_PIPE_SUBSTITUTE \o <<"i", "d", ",", " ", "[">>
                          \o DEXIE_PIPE_SUBSTITUTE \o <<"d", "+", "a", "]">>
====
